---- MODULE Spec2Model ----
(***************************************************************************)
(* Batch lifecycle, crate assignment and reconciliation of asikh-oms,      *)
(* modelled from backend/app/api/routes/{batches,crates,reconciliation}.py *)
(* Weights are fixed-point, in tenths of a kilogram (50 = 5.0 kg).         *)
(* The columns supervisor_id, vehicle_number, driver_name, eta and notes   *)
(* of a batch are written by update_batch exactly as transport_mode is and *)
(* are read by no guard; transport_mode stands for them.  The audit column *)
(* updated_at is not modelled.  Every code in Codes is a registered QR     *)
(* code value.                                                             *)
(***************************************************************************)
EXTENDS Integers, Sequences, FiniteSets, TLC

NULL == "null"

\* ---- universes the inputs are drawn from ----
BatchIds == {"b1", "b2"}
Codes == {"c1", "c2", "c3"}
Weights == {50, 100}
ObsWeights == {95}
Modes == {"truck"}
Places == {"p1"}
Roles == {"admin", "supervisor", "manager"}
Varieties == {"v1", "v2"}
Farms == {"f1", "f2"}

\* the farm every batch is created from, and the variety and the farm a crate is
\* registered with
Farm == "f1"
Variety == "v1"

\* ---- bounds ----
MaxTime == 1
MaxTotalCrates == 3

Times == 1..MaxTime

Statuses == {"open", "in_transit", "arrived", "delivered", "closed", "reconciled"}

\* batch: the batches table; crate: the crates table, keyed by QR code;
\* logs[b][c]: the reconciliation_logs rows (their status) of batch b and scanned code c,
\* in insertion order; recs[b][c]: the crate_reconciliations rows of batch b and code c;
\* hs[h]: the request handler h that runs beside others, with the rows its session
\* has loaded and not yet written back;
\* redis_client: the keys of the Redis database (or of its in-memory stand-in):
\* json[b] the value stored under "batch:<b>", hash[b] the hash stored under
\* "batch:<b>:crates"; calls[k]: the caller k of BatchReconciliationManager, with
\* the position of its call and the values the call holds in its local variables
VARIABLES batch, crate, logs, recs, hs, redis_client, calls

vars == <<batch, crate, logs, recs, hs, redis_client, calls>>

\* ---- rows ----
NoBatch == [status |-> "absent", from_location |-> NULL,
            transport_mode |-> NULL, to_location |-> NULL,
            departure_time |-> 0, arrival_time |-> 0,
            total_crates |-> 0, total_weight |-> 0]

NoCrate == [present |-> FALSE, variety_id |-> NULL, weight |-> 0, farm_id |-> NULL,
            batch_id |-> NULL]

\* no timestamp (None) is 0; stamped times are 1..MaxTime
None == 0

\* no weight in a request (None); supplied weights are numbers
NoWeight == -1

Exists(b) == batch[b].status # "absent"

\* ---- responses ----
Ok == [code |-> 200, kind |-> "ok", info |-> <<>>]

Created == [code |-> 201, kind |-> "ok", info |-> <<>>]

Err(code, kind) == [code |-> code, kind |-> kind, info |-> <<>>]

\* the outcome of a handler: its response and the tables it leaves committed
Res(r, batch2, crate2, logs2, recs2) ==
    [resp |-> r, batch |-> batch2, crate |-> crate2, logs |-> logs2, recs |-> recs2]

\* a raised HTTPException: nothing is committed, the session is rolled back
Fail(r) == Res(r, batch, crate, logs, recs)

BatchRes(r, batch2) == Res(r, batch2, crate, logs, recs)

\* a request handled from its first query to its commit with no other request between
Apply(res) ==
    /\ batch' = res.batch
    /\ crate' = res.crate
    /\ logs' = res.logs
    /\ recs' = res.recs
    /\ UNCHANGED <<hs, redis_client, calls>>

\* ---- transition table ----
VALID_BATCH_TRANSITIONS ==
    [s \in Statuses \cup {"absent"} |->
        CASE s = "open" -> {"in_transit", "arrived"}
          [] s = "in_transit" -> {"arrived"}
          [] s = "arrived" -> {"delivered"}
          [] s = "delivered" -> {"closed"}
          [] OTHER -> {}]

\* a validation that lets a reconciled batch be closed
validate_batch_transition_closes_reconciled(current_status, new_status) ==
    \/ new_status \in VALID_BATCH_TRANSITIONS[current_status]
    \/ current_status = "reconciled" /\ new_status = "closed"

validate_batch_transition(current_status, new_status) ==
    new_status \in VALID_BATCH_TRANSITIONS[current_status]

InvalidTransition(current_status) ==
    [code |-> 400, kind |-> "InvalidTransition",
     info |-> <<current_status, VALID_BATCH_TRANSITIONS[current_status]>>]

\* ---- queries over the tables ----
CratesIn(b) == {c \in Codes : crate[c].present /\ crate[c].batch_id = b}

RECURSIVE SumWeight(_)
SumWeight(S) ==
    IF S = {} THEN 0
    ELSE LET c == CHOOSE x \in S : TRUE IN crate[c].weight + SumWeight(S \ {c})

\* the handlers that run beside each other
Handlers == {"h1", "h2"}

\* the callers of the reconciliation cache that run beside each other
Callers == {"k1", "k2"}

\* RedisManager.get_json of a key that does not exist: None
NoEntry == [missing |-> TRUE]

\* a caller that holds no status
NoStatus == [batch_id |-> NULL, closed |-> FALSE, closed_at |-> 0, closed_by |-> NULL,
             total_crates |-> 0, reconciled_count |-> 0, crates |-> <<>>]

\* a caller that has made no call
NoCall == [pc |-> "idle", op |-> NULL, b |-> NULL, c |-> NULL, n |-> 0,
           batch_data |-> NoEntry, ret |-> "none", status |-> NoStatus,
           prev |-> [op |-> NULL, c |-> NULL, n |-> 0, ret |-> "none"],
           made |-> 0, cold |-> FALSE]

\* a handler that has received no request
Idle == [pc |-> "idle", op |-> NULL, b |-> NULL, c |-> NULL, w |-> 0,
         sbatch |-> NoBatch, scrate |-> NoCrate, nlogs |-> 0, nrecs |-> 0,
         result |-> "none"]

Init ==
    /\ batch = [b \in BatchIds |-> NoBatch]
    /\ crate = [c \in Codes |-> NoCrate]
    /\ logs = [b \in BatchIds |-> [c \in Codes |-> <<>>]]
    /\ recs = [b \in BatchIds |-> [c \in Codes |-> <<>>]]
    /\ hs = [h \in Handlers |-> Idle]
    /\ redis_client = [json |-> [b \in BatchIds |-> NoEntry],
                       hash |-> [b \in BatchIds |-> <<>>]]
    /\ calls = [k \in Callers |-> NoCall]

\* POST /batches
create_batch(b, mode, dest) ==
    BatchRes(Created, [batch EXCEPT ![b] =
                    [status |-> "open", from_location |-> Farm,
                     transport_mode |-> mode, to_location |-> dest,
                     departure_time |-> None, arrival_time |-> None,
                     total_crates |-> 0, total_weight |-> 0]])

\* BatchUpdate.validate_status: the statuses the request schema accepts
BatchUpdateStatuses == {"open", "in_transit", "delivered", "reconciled", "closed"}

\* update_batch, the field assignments made before the status block
UpdateFields(row, d) ==
    LET r1 == IF d.transport_mode # NULL
              THEN [row EXCEPT !.transport_mode = d.transport_mode] ELSE row
        r2 == IF d.departure_time # None
              THEN [r1 EXCEPT !.departure_time = d.departure_time,
                              !.status = IF @ = "open" THEN "in_transit" ELSE @]
              ELSE r1
        r3 == IF d.arrival_time # None
              THEN [r2 EXCEPT !.arrival_time = d.arrival_time,
                              !.status = IF @ = "in_transit" THEN "delivered" ELSE @]
              ELSE r2
    IN r3

\* update_batch, the automatic timestamps and the assignment of the status
UpdateStatus(row, target, now) ==
    LET r1 == IF target = "in_transit" /\ row.status = "open" /\ row.departure_time = None
              THEN [row EXCEPT !.departure_time = now] ELSE row
        r2 == IF target = "arrived" /\ r1.status \in {"open", "in_transit"}
                 /\ r1.arrival_time = None
              THEN [r1 EXCEPT !.arrival_time = now] ELSE r1
    IN [r2 EXCEPT !.status = target]

\* PUT /batches/{batch_id}
update_batch(b, d, role, now) ==
    IF d.status # NULL /\ d.status \notin BatchUpdateStatuses
    THEN Fail(Err(422, "Validation"))
    ELSE IF ~Exists(b)
    THEN Fail(Err(404, "NotFound"))
    ELSE LET r == UpdateFields(batch[b], d) IN
         IF d.status = NULL
         THEN BatchRes(Ok, [batch EXCEPT ![b] = r])
         ELSE IF ~validate_batch_transition(r.status, d.status)
         THEN Fail(InvalidTransition(r.status))
         ELSE IF d.status = "delivered" /\ role \notin {"admin", "packhouse", "manager"}
         THEN Fail(Err(403, "Forbidden"))
         ELSE IF d.status = "closed" /\ role \notin {"admin", "packhouse"}
         THEN Fail(Err(403, "Forbidden"))
         ELSE BatchRes(Ok, [batch EXCEPT ![b] = UpdateStatus(r, d.status, now)])

\* PATCH /batches/{batch_id}/depart
mark_batch_departed(b, now) ==
    IF ~Exists(b)
    THEN Fail(Err(404, "NotFound"))
    ELSE IF batch[b].status # "open"
    THEN Fail(Err(400, "InvalidState"))
    ELSE IF batch[b].transport_mode = NULL \/ batch[b].to_location = NULL
    THEN Fail(Err(400, "DispatchFieldsRequired"))
    ELSE BatchRes(Ok, [batch EXCEPT ![b].status = "in_transit",
                                    ![b].departure_time = now])

\* an arrival that stamps the arrival time only
mark_batch_arrived_no_backfill(b, now) ==
    IF ~Exists(b)
    THEN Fail(Err(404, "NotFound"))
    ELSE IF batch[b].status \notin {"open", "in_transit"}
    THEN Fail(Err(400, "InvalidState"))
    ELSE BatchRes(Ok, [batch EXCEPT ![b].status = "arrived", ![b].arrival_time = now])

\* PATCH /batches/{batch_id}/arrive
mark_batch_arrived(b, now) ==
    IF ~Exists(b)
    THEN Fail(Err(404, "NotFound"))
    ELSE IF batch[b].status \notin {"open", "in_transit"}
    THEN Fail(Err(400, "InvalidState"))
    ELSE BatchRes(Ok, [batch EXCEPT ![b].status = "arrived",
                                    ![b].arrival_time = now,
                                    ![b].departure_time = IF @ = None THEN now ELSE @])

\* count of the crate_reconciliations rows of batch b (is_reconciled is always TRUE)
RECURSIVE RecCount(_, _)
RecCount(b, S) ==
    IF S = {} THEN 0
    ELSE LET c == CHOOSE x \in S : TRUE IN Len(recs[b][c]) + RecCount(b, S \ {c})

\* the sum of one column over the crate_reconciliations rows rows
RECURSIVE RowSum(_, _)
RowSum(rows, col) ==
    IF rows = <<>> THEN 0 ELSE Head(rows)[col] + RowSum(Tail(rows), col)

\* func.sum of one column over the crate_reconciliations rows of batch b
RECURSIVE RecSum(_, _, _)
RecSum(b, col, S) ==
    IF S = {} THEN 0
    ELSE LET c == CHOOSE x \in S : TRUE IN RowSum(recs[b][c], col) + RecSum(b, col, S \ {c})

\* round(n / d, 0) for d > 0: the nearest integer, a tie going to the even one
RoundDiv(n, d) ==
    LET q == n \div d
        r == n % d
    IN IF 2 * r < d THEN q
       ELSE IF 2 * r > d THEN q + 1
       ELSE IF q % 2 = 0 THEN q ELSE q + 1

\* round(differential / original * 100, 2), in hundredths of a percent
LossPercentage(differential, original) ==
    IF original > 0 THEN RoundDiv(differential * 10000, original) ELSE 0

\* GET /batches/{batch_id}/reconciliation-stats
get_reconciliation_stats(b) ==
    LET total_crates == Cardinality(CratesIn(b))
        reconciled_crates == RecCount(b, Codes)
        total_original_weight == SumWeight(CratesIn(b))
        total_reconciled_weight == RecSum(b, "weight", Codes)
        total_weight_differential == RecSum(b, "weight_differential", Codes)
    IN [total_crates |-> total_crates,
        reconciled_crates |-> reconciled_crates,
        missing_crates |-> total_crates - reconciled_crates,
        is_reconciliation_complete |-> (reconciled_crates = total_crates) /\ total_crates > 0,
        total_original_weight |-> total_original_weight,
        total_reconciled_weight |-> total_reconciled_weight,
        total_weight_differential |-> total_weight_differential,
        weight_loss_percentage |->
            LossPercentage(total_weight_differential, total_original_weight)]

\* POST /batches/{batch_id}/deliver
mark_batch_delivered(b) ==
    IF ~Exists(b)
    THEN Fail(Err(404, "NotFound"))
    ELSE IF ~validate_batch_transition(batch[b].status, "delivered")
    THEN Fail(InvalidTransition(batch[b].status))
    ELSE IF ~get_reconciliation_stats(b).is_reconciliation_complete
    THEN Fail(Err(400, "CompletenessRequired"))
    ELSE BatchRes(Ok, [batch EXCEPT ![b].status = "delivered"])

\* POST /batches/{batch_id}/close
close_batch(b) ==
    IF ~Exists(b)
    THEN Fail(Err(404, "NotFound"))
    ELSE IF ~validate_batch_transition(batch[b].status, "closed")
    THEN Fail(InvalidTransition(batch[b].status))
    ELSE BatchRes(Ok, [batch EXCEPT ![b].status = "closed"])

CrateRes(r, batch2, crate2) == Res(r, batch2, crate2, logs, recs)

\* POST /crates
create_crate(c, w) ==
    IF crate[c].present
    THEN Fail(Err(409, "Conflict"))
    ELSE CrateRes(Created, batch,
                  [crate EXCEPT ![c] = [present |-> TRUE, variety_id |-> Variety,
                                        weight |-> w, farm_id |-> Farm,
                                        batch_id |-> NULL]])

\* PUT /crates/{crate_id}; w = NoWeight or nb = NULL: the field is not supplied
update_crate(c, w, nb) ==
    IF ~crate[c].present
    THEN Fail(Err(404, "NotFound"))
    ELSE IF nb # NULL /\ ~Exists(nb)
    THEN Fail(Err(400, "BatchNotFound"))
    ELSE CrateRes(Ok, batch,
                  [crate EXCEPT ![c].weight = IF w # NoWeight THEN w ELSE @,
                                ![c].batch_id = IF nb # NULL THEN nb ELSE @])

\* POST /crates/batch-assign
assign_crate_to_batch(c, b) ==
    IF ~crate[c].present
    THEN Fail(Err(404, "NotFound"))
    ELSE IF ~Exists(b)
    THEN Fail(Err(404, "NotFound"))
    ELSE IF batch[b].status \notin {"open", "in_transit"}
    THEN Fail(Err(400, "InvalidState"))
    ELSE CrateRes(Ok,
                  [batch EXCEPT ![b].total_crates = @ + 1,
                                ![b].total_weight = @ + crate[c].weight],
                  [crate EXCEPT ![c].batch_id = b])

AlreadyAssigned(other) == [code |-> 409, kind |-> "AlreadyAssigned", info |-> <<other>>]

\* POST /batches/{batch_id}/add-crate
add_crate_to_batch(b, c) ==
    IF ~Exists(b)
    THEN Fail(Err(404, "NotFound"))
    ELSE IF batch[b].status \notin {"open"}
    THEN Fail(Err(400, "InvalidState"))
    ELSE IF ~crate[c].present
    THEN Fail(Err(404, "NotFound"))
    ELSE IF crate[c].batch_id # NULL
    THEN IF crate[c].batch_id = b THEN Fail(Ok) ELSE Fail(AlreadyAssigned(crate[c].batch_id))
    ELSE CrateRes(Ok,
                  [batch EXCEPT ![b].total_crates = @ + 1,
                                ![b].total_weight = @ + crate[c].weight],
                  [crate EXCEPT ![c].batch_id = b,
                                ![c].farm_id = IF @ = NULL THEN batch[b].from_location ELSE @])

\* the body of POST /batches/{batch_id}/add-minimal-crate: the variety, the weight
\* (DEFAULT_CRATE_WEIGHT when the request has none) and the farm (NULL when the
\* request has none)
DEFAULT_CRATE_WEIGHT == 10

CrateMinimalCreate(variety, w, farm) ==
    [variety_id |-> variety,
     weight |-> IF w = NoWeight THEN DEFAULT_CRATE_WEIGHT ELSE w,
     farm_id |-> farm]

\* an assignment that stores the farm of the request only
add_minimal_crate_no_farm_default(b, c, crate_data) ==
    IF ~Exists(b)
    THEN Fail(Err(404, "NotFound"))
    ELSE IF batch[b].status \notin {"open"}
    THEN Fail(Err(400, "InvalidState"))
    ELSE IF crate[c].present /\ crate[c].batch_id # NULL
    THEN IF crate[c].batch_id = b THEN Fail(Ok) ELSE Fail(AlreadyAssigned(crate[c].batch_id))
    ELSE CrateRes(Ok,
                  [batch EXCEPT ![b].total_crates = @ + 1,
                                ![b].total_weight = @ + crate_data.weight],
                  [crate EXCEPT ![c] = [present |-> TRUE,
                                        variety_id |-> crate_data.variety_id,
                                        weight |-> crate_data.weight,
                                        farm_id |-> crate_data.farm_id,
                                        batch_id |-> b]])

\* POST /batches/{batch_id}/add-minimal-crate, with the body crate_data
add_minimal_crate(b, c, crate_data) ==
    IF ~Exists(b)
    THEN Fail(Err(404, "NotFound"))
    ELSE IF batch[b].status \notin {"open"}
    THEN Fail(Err(400, "InvalidState"))
    ELSE IF crate[c].present /\ crate[c].batch_id # NULL
    THEN IF crate[c].batch_id = b THEN Fail(Ok) ELSE Fail(AlreadyAssigned(crate[c].batch_id))
    ELSE LET row == [present |-> TRUE,
                     variety_id |-> crate_data.variety_id,
                     weight |-> crate_data.weight,
                     farm_id |-> IF crate_data.farm_id # NULL THEN crate_data.farm_id
                                 ELSE batch[b].from_location,
                     batch_id |-> b]
         IN CrateRes(Ok,
                     [batch EXCEPT ![b].total_crates = @ + 1,
                                   ![b].total_weight = @ + row.weight],
                     [crate EXCEPT ![c] = row])

\* POST /batches/{batch_id}/add-minimal-crate, with the weight w, the variety
\* Variety and no farm in the body
add_minimal_crate_to_batch(b, c, w) ==
    add_minimal_crate(b, c, CrateMinimalCreate(Variety, w, NULL))

\* ---- reconciliation ----
\* the scanned codes of batch b that have a reconciliation_logs row with status st
LogsWith(b, st) == {c \in Codes : \E i \in 1..Len(logs[b][c]) : logs[b][c][i] = st}

\* count of the reconciliation_logs rows of batch b with status st, in the table lg
RECURSIVE LogCount(_, _, _, _)
LogCount(lg, b, st, S) ==
    IF S = {} THEN 0
    ELSE LET c == CHOOSE x \in S : TRUE
         IN Len(SelectSeq(lg[b][c], LAMBDA x : x = st)) + LogCount(lg, b, st, S \ {c})

\* a test of the batch status that lets a closed batch through
ScanStatuses_with_closed == {"in_transit", "delivered", "reconciled", "closed"}

\* scan_crate, the statuses of a batch in which a scan is accepted
ScanStatuses == {"in_transit", "delivered", "reconciled"}

\* a classification that takes a crate with no batch for an unknown code
Classify_unassigned_unknown(b, c) ==
    IF ~crate[c].present \/ crate[c].batch_id = NULL THEN "not_found"
    ELSE IF crate[c].batch_id # b THEN "wrong_batch"
    ELSE "matched"

\* scan_crate, the classification of a first scan
Classify(b, c) ==
    IF ~crate[c].present THEN "not_found"
    ELSE IF crate[c].batch_id # b THEN "wrong_batch"
    ELSE "matched"

ScanResp(st, b, c) ==
    [code |-> 201, kind |-> st,
     info |-> IF st = "wrong_batch" THEN <<crate[c].batch_id>> ELSE <<>>]

\* scan_crate assigns its local variable "status" further down, so the two
\* "raise HTTPException(status_code=status.HTTP_...)" of its batch checks read an
\* unbound local: the request ends with an unhandled UnboundLocalError, a 500
UnboundStatus == [code |-> 500, kind |-> "UnboundLocalError", info |-> <<>>]

\* a test that takes only a matched scan of the code for an existing one
existing_scan_matched_only(b, c) ==
    \E i \in 1..Len(logs[b][c]) : logs[b][c][i] = "matched"

\* scan_crate, the query for a reconciliation_logs row of the batch and the code
existing_scan(b, c) == Len(logs[b][c]) > 0

\* scan_crate without its test for an existing scan of the code
scan_crate_rescans(b, c) ==
    IF ~Exists(b)
    THEN Fail(UnboundStatus)
    ELSE IF batch[b].status \notin ScanStatuses
    THEN Fail(UnboundStatus)
    ELSE LET st == Classify(b, c)
         IN Res(ScanResp(st, b, c), batch, crate,
                [logs EXCEPT ![b][c] = Append(@, st)], recs)

\* POST /reconciliation/scan
scan_crate(b, c) ==
    IF ~Exists(b)
    THEN Fail(UnboundStatus)
    ELSE IF batch[b].status \notin ScanStatuses
    THEN Fail(UnboundStatus)
    ELSE IF existing_scan(b, c)
    THEN Fail(ScanResp("duplicate", b, c))
    ELSE LET st == Classify(b, c)
             logs2 == [logs EXCEPT ![b][c] = Append(@, st)]
             total_crates_in_batch == Cardinality(CratesIn(b))
             matched_crates == Cardinality({x \in Codes :
                                  \E i \in 1..Len(logs2[b][x]) : logs2[b][x][i] = "matched"})
             batch2 == IF batch[b].status = "delivered" /\ st = "matched"
                          /\ matched_crates >= total_crates_in_batch
                          /\ total_crates_in_batch > 0
                       THEN [batch EXCEPT ![b].status = "reconciled"]
                       ELSE batch
         IN Res(ScanResp(st, b, c), batch2, crate, logs2, recs)

\* POST /reconciliation/batch/{batch_id}/complete
complete_batch_reconciliation(b) ==
    IF ~Exists(b)
    THEN Fail(Err(404, "NotFound"))
    ELSE IF batch[b].status \notin {"delivered", "in_transit"}
    THEN Fail(Err(400, "InvalidState"))
    ELSE BatchRes(Ok, [batch EXCEPT ![b].status = "reconciled"])

\* reconcile_crate: every HTTPException raised inside its try block is caught by
\* its "except Exception" and re-raised as a 500
ServerError(e) == [code |-> 500, kind |-> "ServerError", info |-> <<e.code, e.kind>>]

\* an insert of the record whether or not the pair has one
Upsert_appends(rows, row) == Append(rows, row)

\* reconcile_crate, the record of a pair: the existing record takes the values
\* of the submission, or a record is created
Upsert(rows, row) == IF Len(rows) > 0 THEN <<row>> \o Tail(rows) ELSE <<row>>

\* reconcile_crate without its test of the batch status
reconcile_crate_any_status(b, c, w) ==
    IF w = NoWeight \/ w <= 0
    THEN Fail(ServerError(Err(400, "Validation")))
    ELSE IF ~Exists(b)
    THEN Fail(ServerError(Err(404, "NotFound")))
    ELSE IF ~crate[c].present
    THEN Fail(ServerError(Err(404, "NotFound")))
    ELSE IF crate[c].batch_id # b
    THEN Fail(ServerError(Err(409, "Conflict")))
    ELSE LET row == [weight |-> w, original_weight |-> crate[c].weight,
                     weight_differential |-> w - crate[c].weight]
         IN Res(Ok, batch, crate, logs,
                [recs EXCEPT ![b][c] = Upsert(@, row)])

\* POST /batches/{batch_id}/reconcile
reconcile_crate(b, c, w) ==
    IF w = NoWeight
    THEN Fail(ServerError(Err(400, "Validation")))
    ELSE IF w <= 0
    THEN Fail(ServerError(Err(400, "Validation")))
    ELSE IF ~Exists(b)
    THEN Fail(ServerError(Err(404, "NotFound")))
    ELSE IF batch[b].status \notin {"arrived", "delivered"}
    THEN Fail(ServerError(Err(400, "InvalidState")))
    ELSE IF ~crate[c].present
    THEN Fail(ServerError(Err(404, "NotFound")))
    ELSE IF crate[c].batch_id # b
    THEN Fail(ServerError(Err(409, "Conflict")))
    ELSE LET row == [weight |-> w, original_weight |-> crate[c].weight,
                     weight_differential |-> w - crate[c].weight]
         IN Res(Ok, batch, crate, logs,
                [recs EXCEPT ![b][c] = Upsert(@, row)])

\* GET /batches/{batch_id}/stats
get_batch_stats(b) ==
    LET crate_count == Cardinality(CratesIn(b))
        reconciled_count == LogCount(logs, b, "matched", Codes)
    IN [total_crates |-> crate_count,
        reconciled_crates |-> reconciled_count,
        is_fully_reconciled |-> IF crate_count > 0 THEN reconciled_count = crate_count
                                ELSE FALSE]

\* GET /batches/{batch_id}/reconciliation-status
get_batch_reconciliation_status(b) ==
    LET total_crates == Cardinality(CratesIn(b))
        reconciled_crates == RecCount(b, Codes)
    IN [total_crates |-> total_crates,
        reconciled_count |-> reconciled_crates,
        is_fully_reconciled |-> batch[b].status = "delivered"
                                /\ reconciled_crates = total_crates /\ total_crates > 0]

BatchUpdates ==
    [transport_mode : Modes \cup {NULL}, departure_time : Times \cup {None},
     arrival_time : Times \cup {None}, status : Statuses \cup {NULL}]

\* the running counter of a batch is kept within the bound
Room(b) == batch[b].total_crates < MaxTotalCrates

\* the role decides only a request for delivered or closed
RoleMatters(d, role) == d.status \in {"delivered", "closed"} \/ role = "admin"

\* one request, handled to completion, with its inputs drawn from the given sets:
\* LS the batches of the lifecycle and reconciliation requests, BS the batches of
\* the creation and assignment requests, CS the codes, WS the declared weights,
\* OS the observed weights, DS the <<transport mode, destination>> of a new batch
Requests(LS, BS, CS, WS, OS, DS) ==
    \/ \E b \in BS, md \in DS :
        ~Exists(b) /\ Apply(create_batch(b, md[1], md[2]))
    \/ \E b \in LS, d \in BatchUpdates, role \in Roles, now \in Times :
        RoleMatters(d, role) /\ Apply(update_batch(b, d, role, now))
    \/ \E b \in LS, now \in Times : Apply(mark_batch_departed(b, now))
    \/ \E b \in LS, now \in Times : Apply(mark_batch_arrived(b, now))
    \/ \E b \in LS : Apply(mark_batch_delivered(b))
    \/ \E b \in LS : Apply(close_batch(b))
    \/ \E c \in CS, w \in WS : Apply(create_crate(c, w))
    \/ \E c \in CS, w \in WS \cup {NoWeight}, nb \in BS \cup {NULL} :
        Apply(update_crate(c, w, nb))
    \/ \E c \in CS, b \in BS : Room(b) /\ Apply(assign_crate_to_batch(c, b))
    \/ \E c \in CS, b \in BS : Room(b) /\ Apply(add_crate_to_batch(b, c))
    \/ \E c \in CS, b \in BS, w \in WS :
        Room(b) /\ Apply(add_minimal_crate_to_batch(b, c, w))
    \/ \E c \in CS, b \in LS : Apply(scan_crate(b, c))
    \/ \E b \in LS : Apply(complete_batch_reconciliation(b))
    \/ \E c \in CS, b \in LS, w \in OS \cup {NoWeight, 0} :
        Apply(reconcile_crate(b, c, w))

Dispatchable == {<<"truck", "p1">>}

Undispatchable == {<<NULL, NULL>>, <<"truck", NULL>>, <<NULL, "p1">>}

Next == Requests({"b1"}, BatchIds, {"c1", "c2"}, {50}, ObsWeights, Dispatchable)

Spec == Init /\ [][Next]_vars

\* one batch and one crate, the batch created with or without its transport mode
\* and destination: BatchCreate leaves both optional and mark_batch_departed tests
\* for their absence, while the ORM model declares both columns NOT NULL; a
\* database whose batches table predates that declaration stores such a batch
NextDraft ==
    Requests({"b1"}, {"b1"}, {"c1"}, {50}, ObsWeights, Dispatchable \cup Undispatchable)

SpecDraft == Init /\ [][NextDraft]_vars

\* one crate of 10.0 kg, observed at 9.5 kg, and two batches it can be assigned to
NextMove == Requests({"b1"}, BatchIds, {"c1"}, {100}, {95}, Dispatchable)

SpecMove == Init /\ [][NextMove]_vars

\* one batch and one crate, with two declared and two observed weights
ReweighWeights == {90, 95}

NextWeigh == Requests({"b1"}, {"b1"}, {"c1"}, Weights, ReweighWeights, Dispatchable)

SpecWeigh == Init /\ [][NextWeigh]_vars

\* ---- handlers that overlap ----
\* Handlers of two server processes on the same database (inside one process an
\* async handler has no await between its first query and its commit).
\* Each handler runs in its own session at READ COMMITTED: its queries load rows
\* (Begin), and its commit writes the columns it assigned, as values computed in
\* Python from the rows it loaded (Commit).  No query locks a row, no table has a
\* version column, and neither observation table has a unique constraint on
\* (batch, code).

\* the queries of a handler: the batch row, the crate row, and the existing
\* observation rows of (b, c)
Begin(h, op, b, c, w) ==
    /\ hs[h].pc = "idle"
    /\ hs' = [hs EXCEPT ![h] = [pc |-> "read", op |-> op, b |-> b, c |-> c, w |-> w,
                                sbatch |-> batch[b], scrate |-> crate[c],
                                nlogs |-> Len(logs[b][c]), nrecs |-> Len(recs[b][c]),
                                result |-> "none"]]
    /\ UNCHANGED <<batch, crate, logs, recs, redis_client, calls>>

Finish(h, result) == hs' = [hs EXCEPT ![h].pc = "done", ![h].result = result]

\* a handler that stops between its first query and its commit (an exception, a
\* lost connection, a killed process): its session is rolled back and closed, and
\* the assignments it made to the loaded rows are never sent
Abort(h) ==
    /\ hs[h].pc = "read"
    /\ Finish(h, "aborted")
    /\ UNCHANGED <<batch, crate, logs, recs, redis_client, calls>>

\* the crate row an assignment writes: add_minimal_crate_to_batch builds or
\* overwrites it, add_crate_to_batch assigns the batch and the farm it lacks
AssignedRow(s) ==
    IF s.op = "add_minimal_crate_to_batch"
    THEN [present |-> TRUE, variety_id |-> Variety, weight |-> s.w,
          farm_id |-> s.sbatch.from_location, batch_id |-> s.b]
    ELSE [s.scrate EXCEPT !.batch_id = s.b,
                          !.farm_id = IF @ = NULL THEN s.sbatch.from_location ELSE @]

\* an assignment whose crate row is committed on its own, before the batch row is written
CommitAssign_crate_alone(h) ==
    LET s == hs[h]
        minimal == s.op = "add_minimal_crate_to_batch"
        wt == IF minimal THEN s.w ELSE s.scrate.weight
    IN
    /\ s.pc = "read"
    /\ s.op \in {"add_crate_to_batch", "add_minimal_crate_to_batch"}
    /\ IF s.sbatch.status # "open" \/ (~minimal /\ ~s.scrate.present)
          \/ (s.scrate.present /\ s.scrate.batch_id # NULL)
       THEN Finish(h, "refused") /\ UNCHANGED <<batch, crate>>
       ELSE /\ crate' = [crate EXCEPT ![s.c] = AssignedRow(s)]
            /\ hs' = [hs EXCEPT ![h].pc = "done", ![h].result = "assigned", ![h].w = wt]
            /\ UNCHANGED batch
    /\ UNCHANGED <<logs, recs, redis_client, calls>>

\* add_crate_to_batch and add_minimal_crate_to_batch, from the loaded rows to the commit
CommitAssign(h) ==
    LET s == hs[h]
        minimal == s.op = "add_minimal_crate_to_batch"
        wt == IF minimal THEN s.w ELSE s.scrate.weight
    IN
    /\ s.pc = "read"
    /\ s.op \in {"add_crate_to_batch", "add_minimal_crate_to_batch"}
    /\ IF s.sbatch.status = "absent"
       THEN Finish(h, "NotFound") /\ UNCHANGED <<batch, crate>>
       ELSE IF s.sbatch.status \notin {"open"}
       THEN Finish(h, "InvalidState") /\ UNCHANGED <<batch, crate>>
       ELSE IF ~minimal /\ ~s.scrate.present
       THEN Finish(h, "NotFound") /\ UNCHANGED <<batch, crate>>
       ELSE IF s.scrate.present /\ s.scrate.batch_id # NULL
       THEN /\ Finish(h, IF s.scrate.batch_id = s.b THEN "ok" ELSE "AlreadyAssigned")
            /\ UNCHANGED <<batch, crate>>
       ELSE /\ crate' = [crate EXCEPT ![s.c] = AssignedRow(s)]
            /\ batch' = [batch EXCEPT ![s.b].total_crates = s.sbatch.total_crates + 1,
                                      ![s.b].total_weight = s.sbatch.total_weight + wt]
            /\ hs' = [hs EXCEPT ![h].pc = "done", ![h].result = "assigned", ![h].w = wt]
    /\ UNCHANGED <<logs, recs, redis_client, calls>>

\* scan_crate, from the loaded rows to the commit
CommitScan(h) ==
    LET s == hs[h]
        st == IF ~s.scrate.present THEN "not_found"
              ELSE IF s.scrate.batch_id # s.b THEN "wrong_batch"
              ELSE "matched"
        logs2 == [logs EXCEPT ![s.b][s.c] = Append(@, st)]
        total_crates_in_batch == Cardinality(CratesIn(s.b))
        matched_crates == Cardinality({x \in Codes :
                             \E i \in 1..Len(logs2[s.b][x]) : logs2[s.b][x][i] = "matched"})
    IN
    /\ s.pc = "read"
    /\ s.op = "scan_crate"
    /\ IF s.sbatch.status = "absent"
       THEN Finish(h, "UnboundLocalError") /\ UNCHANGED <<batch, logs>>
       ELSE IF s.sbatch.status \notin ScanStatuses
       THEN Finish(h, "UnboundLocalError") /\ UNCHANGED <<batch, logs>>
       ELSE IF s.nlogs > 0
       THEN Finish(h, "duplicate") /\ UNCHANGED <<batch, logs>>
       ELSE /\ logs' = logs2
            /\ batch' = IF s.sbatch.status = "delivered" /\ st = "matched"
                            /\ matched_crates >= total_crates_in_batch
                            /\ total_crates_in_batch > 0
                         THEN [batch EXCEPT ![s.b].status = "reconciled"]
                         ELSE batch
            /\ Finish(h, st)
    /\ UNCHANGED <<crate, recs, redis_client, calls>>

\* reconcile_crate, from the loaded rows to the commit
CommitReconcile(h) ==
    LET s == hs[h]
        row == [weight |-> s.w, original_weight |-> s.scrate.weight,
                weight_differential |-> s.w - s.scrate.weight]
    IN
    /\ s.pc = "read"
    /\ s.op = "reconcile_crate"
    /\ IF s.w <= 0
       THEN Finish(h, "ServerError") /\ UNCHANGED recs
       ELSE IF s.sbatch.status \notin {"arrived", "delivered"}
       THEN Finish(h, "ServerError") /\ UNCHANGED recs
       ELSE IF ~s.scrate.present \/ s.scrate.batch_id # s.b
       THEN Finish(h, "ServerError") /\ UNCHANGED recs
       ELSE /\ recs' = [recs EXCEPT ![s.b][s.c] =
                            IF s.nrecs > 0 THEN <<row>> \o Tail(@) ELSE Append(@, row)]
            /\ Finish(h, IF s.nrecs > 0 THEN "updated" ELSE "created")
    /\ UNCHANGED <<batch, crate, logs, redis_client, calls>>

\* the codes that no other handler has been asked to assign
Unclaimed(h) == Codes \ {hs[g].c : g \in Handlers \ {h}}

\* a batch and its unassigned crates are created, then the handlers assign
\* distinct crates to the batch, each at its own pace
NextAssign ==
    \/ \E md \in Dispatchable : ~Exists("b1") /\ Apply(create_batch("b1", md[1], md[2]))
    \/ \E c \in Codes, w \in Weights :
        (\A h \in Handlers : hs[h].pc = "idle") /\ Apply(create_crate(c, w))
    \/ \E h \in Handlers : \E c \in Unclaimed(h) :
        Exists("b1") /\ Begin(h, "add_crate_to_batch", "b1", c, 0)
    \/ \E h \in Handlers : \E c \in Unclaimed(h), w \in Weights :
        Exists("b1") /\ Begin(h, "add_minimal_crate_to_batch", "b1", c, w)
    \/ \E h \in Handlers : CommitAssign(h)
    \/ \E h \in Handlers : Abort(h)

SpecAssign == Init /\ [][NextAssign]_vars

\* a batch is created, filled, dispatched and received, and the handlers scan and
\* weigh its codes, each at its own pace
NextObserve ==
    \/ \E md \in Dispatchable : ~Exists("b1") /\ Apply(create_batch("b1", md[1], md[2]))
    \/ \E c \in {"c1", "c2"} : Apply(add_minimal_crate_to_batch("b1", c, 50))
    \/ \E now \in Times : Apply(mark_batch_departed("b1", now))
    \/ \E now \in Times : Apply(mark_batch_arrived("b1", now))
    \/ \E h \in Handlers, c \in {"c1", "c2"} : Begin(h, "scan_crate", "b1", c, 0)
    \/ \E h \in Handlers, c \in {"c1", "c2"}, w \in ObsWeights :
        Begin(h, "reconcile_crate", "b1", c, w)
    \/ \E h \in Handlers : CommitScan(h)
    \/ \E h \in Handlers : CommitReconcile(h)

SpecObserve == Init /\ [][NextObserve]_vars

\* ---- the receiving flow of one batch of three crates ----
DeclaredWeight == [c \in Codes |-> IF c = "c3" THEN 100 ELSE 50]

NextHappy ==
    \/ \E md \in Dispatchable : ~Exists("b1") /\ Apply(create_batch("b1", md[1], md[2]))
    \/ \E c \in Codes : Apply(create_crate(c, DeclaredWeight[c]))
    \/ \E c \in Codes : Apply(add_crate_to_batch("b1", c))
    \/ \E now \in Times : Apply(mark_batch_departed("b1", now))
    \/ \E now \in Times : Apply(mark_batch_arrived("b1", now))
    \/ \E c \in Codes : Apply(scan_crate("b1", c))
    \/ \E c \in Codes, w \in ObsWeights : Apply(reconcile_crate("b1", c, w))
    \/ Apply(mark_batch_delivered("b1"))
    \/ Apply(close_batch("b1"))

SpecHappy == Init /\ [][NextHappy]_vars

\* ---- crates registered by their assignment ----
\* the bodies of add-minimal-crate: a variety, a weight or none, a farm or none
MinimalBodies ==
    {CrateMinimalCreate(v, w, f) :
        v \in Varieties, w \in {NoWeight, 50}, f \in {NULL} \cup (Farms \ {Farm})}

\* one batch, filled with crates that are registered beforehand or by their
\* assignment, and dispatched
NextMinimal ==
    \/ \E md \in Dispatchable : ~Exists("b1") /\ Apply(create_batch("b1", md[1], md[2]))
    \/ \E c \in {"c1", "c2"} : Apply(create_crate(c, 100))
    \/ \E c \in {"c1", "c2"}, d \in MinimalBodies :
        Room("b1") /\ Apply(add_minimal_crate("b1", c, d))
    \/ \E now \in Times : Apply(mark_batch_departed("b1", now))

SpecMinimal == Init /\ [][NextMinimal]_vars

\* ---- the reconciliation cache (core/redis_client.py) ----
\* Each Redis command is executed by the server as one step; a call of
\* BatchReconciliationManager is a sequence of commands, and another caller's
\* commands can run between any two of them.  json.dumps followed by json.loads
\* gives back the dict it was given (booleans, None, integers and strings).

\* the batch, the codes and the crate counts the callers pass
CacheBatches == {"b1"}

CacheCodes == {"c1", "c2"}

TotalCounts == {1, 2}

\* the timestamp a caller passes
Timestamp == 1

\* the calls a caller makes
MaxCalls == 2

\* d[key] = value
SetKey(d, key, value) == [x \in DOMAIN d \cup {key} |-> IF x = key THEN value ELSE d[x]]

\* d.get(key, default)
GetKey(d, key, default) == IF key \in DOMAIN d THEN d[key] ELSE default

\* not d
Falsy(d) == d = NoEntry \/ DOMAIN d = {}

set_json(key, data) == [redis_client EXCEPT !.json[key] = data]

get_json(key) == redis_client.json[key]

exists(key) == redis_client.json[key] # NoEntry

\* a marker map that is stored whole, holding the one crate of the writer
hset_overwrites(name, key, value) ==
    [redis_client EXCEPT !.hash[name] = [x \in {key} |-> value]]

hset(name, key, value) == [redis_client EXCEPT !.hash[name] = SetKey(@, key, value)]

hgetall(name) == redis_client.hash[name]

\* the batch_data of init_batch_reconciliation and of get_reconciliation_status
ZeroEntry == [closed |-> FALSE, closed_at |-> None, closed_by |-> NULL,
              total_crates |-> 0, reconciled_count |-> 0]

init_batch_reconciliation(b) == set_json(b, ZeroEntry)

\* the first command of each call
FirstStep == [get_reconciliation_status |-> "get", reconcile_crate |-> "exists",
              close_batch |-> "get", update_total_crates |-> "get"]

\* caller k calls operation op; it remembers the call it made before
Call(k, op, b, c, n) ==
    /\ calls[k].pc \in {"idle", "done"}
    /\ calls[k].made < MaxCalls
    /\ calls' = [calls EXCEPT ![k] =
                    [pc |-> FirstStep[op], op |-> op, b |-> b, c |-> c, n |-> n,
                     batch_data |-> NoEntry, ret |-> "none", status |-> NoStatus,
                     prev |-> [op |-> calls[k].op, c |-> calls[k].c,
                               n |-> calls[k].n, ret |-> calls[k].ret],
                     made |-> calls[k].made + 1, cold |-> ~exists(b)]]
    /\ UNCHANGED <<batch, crate, logs, recs, hs, redis_client>>

\* the call of caller k moves to its next command
Step(k, pc, batch_data) ==
    calls' = [calls EXCEPT ![k].pc = pc, ![k].batch_data = batch_data]

\* the call of caller k returns
Return(k, ret, batch_data) ==
    calls' = [calls EXCEPT ![k].pc = "done", ![k].ret = ret,
                           ![k].batch_data = batch_data]

\* BatchReconciliationManager.get_reconciliation_status, one command at a time
cache_get_reconciliation_status(k) ==
    LET s == calls[k] IN
    /\ s.op = "get_reconciliation_status"
    /\ \/ /\ s.pc = "get"
          /\ IF Falsy(get_json(s.b))
             THEN Step(k, "init", ZeroEntry)
             ELSE Step(k, "hgetall", get_json(s.b))
          /\ UNCHANGED redis_client
       \/ /\ s.pc = "init"
          /\ redis_client' = init_batch_reconciliation(s.b)
          /\ Step(k, "hgetall", s.batch_data)
       \/ /\ s.pc = "hgetall"
          /\ calls' = [calls EXCEPT ![k].pc = "done", ![k].ret = "status",
                ![k].status =
                    [batch_id |-> s.b,
                     closed |-> GetKey(s.batch_data, "closed", FALSE),
                     closed_at |-> GetKey(s.batch_data, "closed_at", None),
                     closed_by |-> GetKey(s.batch_data, "closed_by", NULL),
                     total_crates |-> GetKey(s.batch_data, "total_crates", 0),
                     reconciled_count |-> Cardinality(DOMAIN hgetall(s.b)),
                     crates |-> hgetall(s.b)]]
          /\ UNCHANGED redis_client
    /\ UNCHANGED <<batch, crate, logs, recs, hs>>

\* the marker of a crate
Marker(k, w) == [reconciled_by |-> k, reconciled_at |-> Timestamp, weight |-> w]

\* BatchReconciliationManager.reconcile_crate, one command at a time
cache_reconcile_crate(k) ==
    LET s == calls[k] IN
    /\ s.op = "reconcile_crate"
    /\ \/ /\ s.pc = "exists"
          /\ Step(k, IF exists(s.b) THEN "get" ELSE "init", s.batch_data)
          /\ UNCHANGED redis_client
       \/ /\ s.pc = "init"
          /\ redis_client' = init_batch_reconciliation(s.b)
          /\ Step(k, "get", s.batch_data)
       \/ /\ s.pc = "get"
          /\ Step(k, "hset", get_json(s.b))
          /\ UNCHANGED redis_client
       \/ /\ s.pc = "hset"
          /\ redis_client' = hset(s.b, s.c, Marker(k, s.n))
          /\ Step(k, "hgetall", s.batch_data)
       \/ /\ s.pc = "hgetall"
          /\ IF s.batch_data = NoEntry
             THEN Return(k, "False", s.batch_data)
             ELSE Step(k, "set", SetKey(s.batch_data, "reconciled_count",
                                        Cardinality(DOMAIN hgetall(s.b))))
          /\ UNCHANGED redis_client
       \/ /\ s.pc = "set"
          /\ redis_client' = set_json(s.b, s.batch_data)
          /\ Return(k, "True", s.batch_data)
    /\ UNCHANGED <<batch, crate, logs, recs, hs>>

\* BatchReconciliationManager.close_batch, one command at a time
cache_close_batch(k) ==
    LET s == calls[k] IN
    /\ s.op = "close_batch"
    /\ \/ /\ s.pc = "get"
          /\ IF Falsy(get_json(s.b))
             THEN Return(k, "False", get_json(s.b))
             ELSE Step(k, "set", SetKey(SetKey(SetKey(get_json(s.b),
                            "closed", TRUE), "closed_at", Timestamp), "closed_by", k))
          /\ UNCHANGED redis_client
       \/ /\ s.pc = "set"
          /\ redis_client' = set_json(s.b, s.batch_data)
          /\ Return(k, "True", s.batch_data)
    /\ UNCHANGED <<batch, crate, logs, recs, hs>>

\* BatchReconciliationManager.update_total_crates, one command at a time
cache_update_total_crates(k) ==
    LET s == calls[k] IN
    /\ s.op = "update_total_crates"
    /\ \/ /\ s.pc = "get"
          /\ Step(k, "set", SetKey(IF Falsy(get_json(s.b)) THEN <<>> ELSE get_json(s.b),
                                   "total_crates", s.n))
          /\ UNCHANGED redis_client
       \/ /\ s.pc = "set"
          /\ redis_client' = set_json(s.b, s.batch_data)
          /\ Return(k, "True", s.batch_data)
    /\ UNCHANGED <<batch, crate, logs, recs, hs>>

\* the first call of a caller is any operation of the cache; the call that
\* follows it asks for the status
Calls(KS) ==
    \/ \E k \in KS, b \in CacheBatches :
        (calls[k].made = 0 \/ calls[k].ret \in {"True", "False"})
        /\ Call(k, "get_reconciliation_status", b, NULL, 0)
    \/ \E k \in KS, b \in CacheBatches, c \in CacheCodes, w \in ObsWeights :
        calls[k].made = 0 /\ Call(k, "reconcile_crate", b, c, w)
    \/ \E k \in KS, b \in CacheBatches :
        calls[k].made = 0 /\ Call(k, "close_batch", b, NULL, 0)
    \/ \E k \in KS, b \in CacheBatches, n \in TotalCounts :
        calls[k].made = 0 /\ Call(k, "update_total_crates", b, NULL, n)
    \/ \E k \in KS : cache_get_reconciliation_status(k)
    \/ \E k \in KS : cache_reconcile_crate(k)
    \/ \E k \in KS : cache_close_batch(k)
    \/ \E k \in KS : cache_update_total_crates(k)

\* two callers of the cache, each at its own pace
NextCache == Calls(Callers)

SpecCache == Init /\ [][NextCache]_vars

\* the crates of batch b that have a row in crate_reconciliations
Weighed(b) == {c \in Codes : recs[b][c] # <<>>}

\* one batch and one crate in the database, and one caller of the cache that
\* passes what the database holds: the crates that have been weighed, the number
\* of crates of the batch, the closing of a closed batch; no request is handled
\* while a call of the cache is in progress
NextProjection ==
    \/ (calls["k1"].pc \in {"idle", "done"})
        /\ Requests({"b1"}, {"b1"}, {"c1"}, {50}, ObsWeights, Dispatchable)
    \/ \E b \in CacheBatches :
        (calls["k1"].made = 0 \/ calls["k1"].ret \in {"True", "False"})
        /\ Call("k1", "get_reconciliation_status", b, NULL, 0)
    \/ \E b \in CacheBatches : \E c \in Weighed(b) :
        calls["k1"].made = 0 /\ Call("k1", "reconcile_crate", b, c, recs[b][c][1].weight)
    \/ \E b \in CacheBatches :
        calls["k1"].made = 0 /\ batch[b].status = "closed"
        /\ Call("k1", "close_batch", b, NULL, 0)
    \/ \E b \in CacheBatches :
        calls["k1"].made = 0
        /\ Call("k1", "update_total_crates", b, NULL, Cardinality(CratesIn(b)))
    \/ cache_get_reconciliation_status("k1")
    \/ cache_reconcile_crate("k1")
    \/ cache_close_batch("k1")
    \/ cache_update_total_crates("k1")

SpecProjection == Init /\ [][NextProjection]_vars

\* ---------------------------------------------------------------------------
\* C1: for every batch, total_crates is the number of crates whose batch
\* reference is the batch and total_weight is the sum of their declared weights
TotalsMatchCrates ==
    \A b \in BatchIds :
        Exists(b) => /\ batch[b].total_crates = Cardinality(CratesIn(b))
                     /\ batch[b].total_weight = SumWeight(CratesIn(b))

\* C3: a transition request (update_batch with a status, deliver, close) whose
\* target is outside the allowed set of the batch's status fails with an
\* invalid-transition error naming that status and its allowed set, and leaves
\* every table as it was
IllegalTransitionRejected ==
    \A b \in BatchIds :
        Exists(b) =>
            /\ \A d \in BatchUpdates, role \in Roles, now \in Times :
                (d.status # NULL /\ ~validate_batch_transition(batch[b].status, d.status))
                    => update_batch(b, d, role, now) = Fail(InvalidTransition(batch[b].status))
            /\ ~validate_batch_transition(batch[b].status, "delivered")
                    => mark_batch_delivered(b) = Fail(InvalidTransition(batch[b].status))
            /\ ~validate_batch_transition(batch[b].status, "closed")
                    => close_batch(b) = Fail(InvalidTransition(batch[b].status))

\* every crate of batch b has a reconciliation record for b, and b has a crate
AllReconciled(b) ==
    /\ CratesIn(b) # {}
    /\ \A c \in CratesIn(b) : Len(recs[b][c]) > 0

\* C4: no step moves a batch into delivered unless the batch has a crate and
\* every crate assigned to it has a reconciliation record for it
DeliveredOnlyWhenReconciled ==
    [][\A b \in BatchIds :
        (batch[b].status # "delivered" /\ batch'[b].status = "delivered")
            => AllReconciled(b)]_vars

\* C5: the first scan of a crate of batch B, B in a status that accepts scans,
\* returns matched and adds one matched record; a scan of a code that already
\* has a record for B is a successful response "duplicate" that leaves every
\* table as it was, so the matched count after both scans is 1 higher
ScanTwiceCountsOnce ==
    \A b \in BatchIds, c \in Codes :
        (Exists(b) /\ batch[b].status \in ScanStatuses) =>
            /\ (crate[c].present /\ crate[c].batch_id = b /\ Len(logs[b][c]) = 0) =>
                LET r == scan_crate(b, c) IN
                    /\ r.resp.kind = "matched"
                    /\ r.logs = [logs EXCEPT ![b][c] = <<"matched">>]
                    /\ LogCount(r.logs, b, "matched", Codes)
                          = LogCount(logs, b, "matched", Codes) + 1
            /\ Len(logs[b][c]) > 0 =>
                scan_crate(b, c) = Fail([code |-> 201, kind |-> "duplicate", info |-> <<>>])

\* C5 witness: a crate of a batch that accepts scans has been scanned once and matched
ScannedOnceWitness ==
    \E b \in BatchIds, c \in Codes :
        /\ batch[b].status \in ScanStatuses
        /\ crate[c].present /\ crate[c].batch_id = b
        /\ logs[b][c] = <<"matched">>
        /\ get_batch_stats(b).reconciled_crates = 1

\* C7: the completeness query reports complete exactly when the batch has a
\* crate and every crate assigned to it has exactly one record for it
CompleteIffEveryCrateReconciled ==
    \A b \in BatchIds :
        Exists(b) =>
            (get_reconciliation_stats(b).is_reconciliation_complete
                <=> (CratesIn(b) # {} /\ \A c \in CratesIn(b) : Len(recs[b][c]) = 1))

\* C9: a closed batch keeps its row and its set of crates in every step
ClosedBatchImmutable ==
    [][\A b \in BatchIds :
        batch[b].status = "closed"
            => (batch'[b] = batch[b] /\ CratesIn(b)' = CratesIn(b))]_vars

\* C10: a crate's batch reference is set to a batch only while the batch is
\* open, and the crates of a batch that is not open never change
AssignedOnlyWhileOpen ==
    [][\A b \in BatchIds :
        (Exists(b) /\ batch[b].status # "open") => CratesIn(b)' = CratesIn(b)]_vars

\* the handlers whose request assigned a crate to batch b
Assigned(b) == {h \in Handlers : hs[h].pc = "done" /\ hs[h].result = "assigned" /\ hs[h].b = b}

\* the sum of the weights the handlers of S added
RECURSIVE SumAdded(_)
SumAdded(S) ==
    IF S = {} THEN 0
    ELSE LET h == CHOOSE x \in S : TRUE IN hs[h].w + SumAdded(S \ {h})

\* C2: when every handler has assigned its own, distinct, unassigned crate to the
\* same open batch and every call has succeeded, the batch's total_crates is
\* higher by the number of handlers and its total_weight by the sum of the
\* weights they assigned (the batch started with totals 0)
NoLostUpdate ==
    \A b \in BatchIds :
        Assigned(b) = Handlers =>
            /\ batch[b].total_crates = Cardinality(Handlers)
            /\ batch[b].total_weight = SumAdded(Handlers)

\* C6: there is at most one observation row per (batch, code), in each of the
\* two observation tables, also when handlers scan or weigh the same code at
\* the same time
AtMostOneObservation ==
    \A b \in BatchIds, c \in Codes : Len(logs[b][c]) <= 1 /\ Len(recs[b][c]) <= 1

\* the batch holds the three crates of weights 5, 5 and 10 and nothing else happened to it
ThreeCrates(b) == CratesIn(b) = Codes /\ \A c \in Codes : crate[c].weight = DeclaredWeight[c]

\* C8: a new batch is open with totals 0; with the three crates of weights 5, 5
\* and 10 assigned its totals are 3 and 20; dispatch gives in_transit; arrival
\* gives arrived; a scan of each code against the arrived batch is matched;
\* with the three codes scanned the completeness query reports 3 of 3 and
\* complete, and delivery succeeds; when delivered, close succeeds
HappyPath ==
    LET b == "b1" IN
    /\ ~Exists(b) => \A md \in Dispatchable :
            LET r == create_batch(b, md[1], md[2]).batch[b]
            IN r.status = "open" /\ r.total_crates = 0 /\ r.total_weight = 0
    /\ (Exists(b) /\ ThreeCrates(b)) =>
        /\ batch[b].total_crates = 3 /\ batch[b].total_weight = 200
        /\ batch[b].status = "open" => \A now \in Times :
                mark_batch_departed(b, now).batch[b].status = "in_transit"
        /\ batch[b].status = "in_transit" => \A now \in Times :
                mark_batch_arrived(b, now).batch[b].status = "arrived"
        /\ batch[b].status = "arrived" =>
            /\ \A c \in Codes :
                logs[b][c] = <<>> => scan_crate(b, c).resp.kind = "matched"
            /\ (\A c \in Codes : logs[b][c] = <<"matched">>) =>
                /\ get_reconciliation_stats(b).total_crates = 3
                /\ get_reconciliation_stats(b).reconciled_crates = 3
                /\ get_reconciliation_stats(b).is_reconciliation_complete
                /\ mark_batch_delivered(b).resp = Ok
                /\ mark_batch_delivered(b).batch[b].status = "delivered"
        /\ batch[b].status = "delivered" =>
            /\ close_batch(b).resp = Ok
            /\ close_batch(b).batch[b].status = "closed"

\* C11: assigning to an open batch b a crate that is assigned to another batch a
\* fails, through every assignment entry point, with the already-assigned
\* conflict naming a, and leaves the crate and both batches as they were
CrossBatchAssignRejected ==
    \A a \in BatchIds, b \in BatchIds, c \in Codes :
        (a # b /\ Exists(b) /\ batch[b].status = "open"
              /\ crate[c].present /\ crate[c].batch_id = a) =>
            /\ add_crate_to_batch(b, c) = Fail(AlreadyAssigned(a))
            /\ \A w \in Weights : add_minimal_crate_to_batch(b, c, w) = Fail(AlreadyAssigned(a))
            /\ assign_crate_to_batch(c, b) = Fail(AlreadyAssigned(a))
            /\ update_crate(c, NoWeight, b) = Fail(AlreadyAssigned(a))

\* C12: assigning a crate to the open batch it is already assigned to succeeds,
\* through every assignment entry point, and leaves the crate's batch reference
\* and the batch's totals as they were
SameBatchAssignIsNoOp ==
    \A b \in BatchIds, c \in Codes :
        (Exists(b) /\ batch[b].status = "open" /\ crate[c].present /\ crate[c].batch_id = b) =>
            /\ add_crate_to_batch(b, c) = Fail(Ok)
            /\ add_minimal_crate_to_batch(b, c, crate[c].weight) = Fail(Ok)
            /\ assign_crate_to_batch(c, b).resp = Ok
            /\ assign_crate_to_batch(c, b).crate = crate
            /\ assign_crate_to_batch(c, b).batch = batch

\* C13: the first scan of a code against a batch b that accepts scans is
\* not_found iff no crate has the code, wrong_batch iff a crate has the code
\* and its batch reference is not b (the response then names the batch the
\* crate is assigned to), and matched otherwise; a not_found or wrong_batch
\* scan leaves the matched count and the weigh count of b as they were
FirstScanClassified ==
    \A b \in BatchIds, c \in Codes :
        (Exists(b) /\ batch[b].status \in ScanStatuses /\ logs[b][c] = <<>>) =>
            LET r == scan_crate(b, c)
                k == r.resp.kind
            IN /\ k \in {"not_found", "wrong_batch", "matched"}
               /\ r.logs = [logs EXCEPT ![b][c] = <<k>>]
               /\ k = "not_found" <=> ~crate[c].present
               /\ k = "wrong_batch" <=> (crate[c].present /\ crate[c].batch_id # b)
               /\ k = "wrong_batch" => r.resp.info = <<crate[c].batch_id>>
               /\ k # "matched" =>
                    /\ LogCount(r.logs, b, "matched", Codes) = LogCount(logs, b, "matched", Codes)
                    /\ r.recs = recs
                    /\ r.batch = batch

\* C13 witness: a batch that accepts scans holds a wrong_batch scan of a crate of
\* another batch and a not_found scan of a code no crate has
ClassifiedWitness ==
    \E b \in BatchIds, a \in BatchIds, c \in Codes, d \in Codes :
        /\ a # b /\ batch[b].status \in ScanStatuses
        /\ crate[c].present /\ crate[c].batch_id = a /\ logs[b][c] = <<"wrong_batch">>
        /\ ~crate[d].present /\ logs[b][d] = <<"not_found">>

\* every crate of batch b has a matched scan of b, and b has a crate
AllMatched(b) == CratesIn(b) # {} /\ CratesIn(b) \subseteq LogsWith(b, "matched")

\* C14: a step that makes a batch reconciled starts from in_transit or delivered
\* and ends with the batch non-empty and every crate of it holding a matched
\* scan, whether the step is a scan or the complete-reconciliation request
ReconciledOnlyWhenAllMatched ==
    [][\A b \in BatchIds :
        (batch[b].status # "reconciled" /\ batch'[b].status = "reconciled") =>
            /\ batch[b].status \in {"in_transit", "delivered"}
            /\ AllMatched(b)']_vars

\* C15: a step that closes a batch starts in a state where the batch is
\* non-empty and every crate of it holds an observation of it (a weigh record
\* or a matched scan), whichever request closes it
ClosedOnlyWhenComplete ==
    [][\A b \in BatchIds :
        (batch[b].status # "closed" /\ batch'[b].status = "closed") =>
            /\ CratesIn(b) # {}
            /\ \A c \in CratesIn(b) : Len(recs[b][c]) > 0 \/ c \in LogsWith(b, "matched")]_vars

\* C16: a weigh request creates or changes a record only if its weight is
\* present and positive, the batch is arrived or delivered and the code is a
\* crate of the batch; any other weigh request is answered with an error and
\* leaves every table as it was
WeighValidated ==
    \A b \in BatchIds, c \in Codes, w \in ObsWeights \cup {NoWeight, 0} :
        LET r == reconcile_crate(b, c, w)
            valid == /\ w # NoWeight /\ w > 0
                     /\ batch[b].status \in {"arrived", "delivered"}
                     /\ crate[c].present /\ crate[c].batch_id = b
        IN /\ valid => (r.resp = Ok /\ Len(r.recs[b][c]) > 0 /\ r.recs[b][c][1].weight = w)
           /\ ~valid => (r.resp.code >= 400 /\ r = Fail(r.resp))

\* C16 witness: a crate of an arrived batch has been weighed, and another crate
\* is not in that batch, so that a weigh of it against the batch is refused
WeighedWitness ==
    \E b \in BatchIds, c \in Codes :
        /\ batch[b].status = "arrived" /\ crate[c].batch_id = b /\ Len(recs[b][c]) = 1
        /\ \E d \in Codes : crate[d].present /\ crate[d].batch_id # b

DeclaredWeightSnapshot ==
    [][\A b \in BatchIds, c \in Codes :
        /\ Len(recs[b][c]) > 0 =>
              /\ Len(recs'[b][c]) > 0
              /\ recs'[b][c][1].original_weight = recs[b][c][1].original_weight
        /\ Len(recs'[b][c]) > 0 =>
              recs'[b][c][1].weight_differential
                  = recs'[b][c][1].weight - recs'[b][c][1].original_weight]_vars

ScanEligibility ==
    \A b \in BatchIds, c \in Codes :
        LET r == scan_crate(b, c) IN
        /\ batch[b].status \in {"open", "closed"} =>
              (r.resp.code >= 400 /\ r = Fail(r.resp))
        /\ (batch[b].status \in {"in_transit", "arrived", "delivered"} /\ logs[b][c] = <<>>) =>
              /\ r.resp.code = 201
              /\ r.resp.kind \in {"matched", "wrong_batch", "not_found"}
              /\ r.logs[b][c] = <<r.resp.kind>>

EmptyBatchNeverComplete ==
    [][\A b \in BatchIds :
        (Exists(b) /\ CratesIn(b) = {}) =>
            /\ ~get_batch_reconciliation_status(b).is_fully_reconciled
            /\ ~get_reconciliation_stats(b).is_reconciliation_complete
            /\ ~get_batch_stats(b).is_fully_reconciled
            /\ \A c \in Codes : scan_crate(b, c).batch[b].status = batch[b].status
            /\ batch[b].status # "delivered" => batch'[b].status # "delivered"]_vars

\* C24: the weight statistics of a batch sum the declared, the observed and the
\* differential values over the same observations: the total differential is
\* the total observed minus the total declared weight, and the loss percentage
\* is the total differential over the total declared weight, times 100
WeightStatsConsistent ==
    \A b \in BatchIds :
        Exists(b) =>
            LET s == get_reconciliation_stats(b)
            IN /\ s.total_weight_differential
                    = s.total_reconciled_weight - s.total_original_weight
               /\ s.weight_loss_percentage
                    = LossPercentage(s.total_reconciled_weight - s.total_original_weight,
                                     s.total_original_weight)

\* C25: the differential of a record is its observed weight minus the declared
\* weight stored with it, negative exactly when the observed weight is the
\* lower one, and a batch whose differentials sum to a negative value reports
\* a negative loss percentage
DifferentialSign ==
    \A b \in BatchIds :
        /\ \A c \in Codes : \A i \in 1..Len(recs[b][c]) :
              LET row == recs[b][c][i]
              IN /\ row.weight_differential = row.weight - row.original_weight
                 /\ row.weight_differential < 0 <=> row.weight < row.original_weight
        /\ Exists(b) =>
              LET s == get_reconciliation_stats(b)
              IN s.total_weight_differential < 0 => s.weight_loss_percentage < 0

\* C26: each refusal of a weigh request reaches the caller under its own kind:
\* a missing or non-positive weight as a validation error, an unknown batch or
\* code as not-found, a batch in an ineligible status as invalid-state, a crate
\* of another batch as a conflict; none is answered as a server error
WeighErrorsSurfaced ==
    \A b \in BatchIds, c \in Codes, w \in ObsWeights \cup {NoWeight, 0} :
        LET r == reconcile_crate(b, c, w).resp
        IN /\ r.code # 500
           /\ (w = NoWeight \/ w <= 0) => r = Err(400, "Validation")
           /\ (w > 0 /\ ~Exists(b)) => r = Err(404, "NotFound")
           /\ (w > 0 /\ Exists(b) /\ batch[b].status \notin {"arrived", "delivered"})
                => r = Err(400, "InvalidState")
           /\ (w > 0 /\ batch[b].status \in {"arrived", "delivered"} /\ ~crate[c].present)
                => r = Err(404, "NotFound")
           /\ (w > 0 /\ batch[b].status \in {"arrived", "delivered"} /\ crate[c].present
                 /\ crate[c].batch_id # b) => r = Err(409, "Conflict")
\* the crates a caller has recorded in the cache of batch b, its call having returned True
Recorded(k, b) ==
    {c \in CacheCodes :
        \/ calls[k].op = "reconcile_crate" /\ calls[k].b = b /\ calls[k].c = c
           /\ calls[k].ret = "True"
        \/ calls[k].prev.op = "reconcile_crate" /\ calls[k].b = b /\ calls[k].prev.c = c
           /\ calls[k].prev.ret = "True"}

\* no call of the cache is between two of its commands
Quiescent == \A k \in Callers : calls[k].pc \in {"idle", "done"}

\* C27: when the callers that recorded reconciled crates of a batch in the cache
\* have all finished, the marker map of the batch holds a marker for every crate
\* any of them recorded, however their commands were interleaved.
MarkersMergeSafe ==
    Quiescent =>
        \A b \in CacheBatches, k \in Callers : Recorded(k, b) \subseteq DOMAIN hgetall(b)

\* two callers have recorded different crates, their commands interleaved: the
\* count stored last is the one of the caller that counted first
MergedWitness ==
    /\ Quiescent
    /\ Recorded("k1", "b1") = {"c1"}
    /\ Recorded("k2", "b1") = {"c2"}
    /\ DOMAIN hgetall("b1") = {"c1", "c2"}
    /\ get_json("b1").reconciled_count = 1

\* C28: whenever no call of the cache is in progress, the entry of a batch, if it
\* exists, is the projection of the database: its markers are the crates of the
\* batch that have a reconciliation record, its reconciled_count is their number,
\* and its total_crates is the number of crates assigned to the batch.
CacheProjectsLedger ==
    Quiescent =>
        \A b \in CacheBatches :
            exists(b) =>
                /\ DOMAIN hgetall(b) = Weighed(b)
                /\ GetKey(get_json(b), "reconciled_count", 0) = Cardinality(Weighed(b))
                /\ GetKey(get_json(b), "total_crates", 0) = Cardinality(CratesIn(b))

\* the fields of a complete entry
EntryFields == {"closed", "closed_at", "closed_by", "total_crates", "reconciled_count"}

\* C29: a call of the cache for a batch that had no entry returns successfully,
\* and what it returns (get-status) or leaves stored (the other operations) has
\* the counts of the database and every field of an entry.
ColdCallRebuilds ==
    [][\A k \in Callers :
        (calls[k].pc # "done" /\ calls'[k].pc = "done" /\ calls[k].cold) =>
            LET b == calls[k].b
                op == calls[k].op
                entry == redis_client'.json[b]
                status == calls'[k].status
            IN
            /\ calls'[k].ret # "False"
            /\ IF op = "get_reconciliation_status"
               THEN /\ status.total_crates = Cardinality(CratesIn(b))
                    /\ status.reconciled_count = Cardinality(Weighed(b))
                    /\ DOMAIN status.crates = Weighed(b)
               ELSE /\ entry # NoEntry
                    /\ EntryFields \subseteq DOMAIN entry
                    /\ GetKey(entry, "total_crates", 0) = Cardinality(CratesIn(b))
                    /\ GetKey(entry, "reconciled_count", 0) = Cardinality(Weighed(b))]_vars

\* the crate counts that callers other than k have passed to update_total_crates
OthersWrote(k) ==
    {calls[j].n : j \in {x \in Callers \ {k} : calls[x].op = "update_total_crates"}}
    \cup {calls[j].prev.n :
            j \in {x \in Callers \ {k} : calls[x].prev.op = "update_total_crates"}}

\* C30: a caller whose write to the cache returned True and who then asks for the
\* status is given a status that shows the write: the marker of the crate it
\* recorded, the crate count it wrote or one that another caller wrote, the
\* closed flag it set, whatever the other callers did in between.
ReadYourWrites ==
    \A k \in Callers :
        (/\ calls[k].op = "get_reconciliation_status"
         /\ calls[k].pc = "done"
         /\ calls[k].prev.ret = "True") =>
            LET w == calls[k].prev
                status == calls[k].status
            IN
            /\ w.op = "reconcile_crate" => w.c \in DOMAIN status.crates
            /\ w.op = "update_total_crates" =>
                    status.total_crates \in {w.n} \cup OthersWrote(k)
            /\ w.op = "close_batch" => status.closed

StatusChangesFollowTable ==
    [][\A b \in BatchIds :
        (Exists(b) /\ batch'[b].status # batch[b].status) =>
            \/ validate_batch_transition(batch[b].status, batch'[b].status)
            \/ /\ batch[b].status \in {"in_transit", "delivered"}
               /\ batch'[b].status = "reconciled"]_vars

\* C33: reconciled is terminal: no step changes the status of a batch whose
\* status is reconciled.
ReconciledIsTerminal ==
    [][\A b \in BatchIds :
        batch[b].status = "reconciled" => batch'[b].status = "reconciled"]_vars

\* a batch that was reconciled with its crate scanned and not weighed, and that
\* has an arrival time
ReconciledWitness ==
    /\ batch["b1"].status = "reconciled"
    /\ batch["b1"].arrival_time # None
    /\ crate["c1"].batch_id = "b1"
    /\ logs["b1"]["c1"] = <<"matched">>
    /\ recs["b1"]["c1"] = <<>>

\* C34: the record a first scan stores for a batch and a code is never changed by
\* a later step, and every later scan of the code that the batch accepts is
\* answered duplicate, also when the first outcome was not_found or wrong_batch
\* and the crate has since been registered or assigned to the batch; no matched
\* record is added for the pair.
FirstClassificationStays ==
    [][\A b \in BatchIds, c \in Codes :
        logs[b][c] # <<>> =>
            /\ logs'[b][c] = logs[b][c]
            /\ batch[b].status \in ScanStatuses =>
                    scan_crate(b, c) = Fail(ScanResp("duplicate", b, c))]_vars

\* a code scanned before its crate was registered, the crate now in the batch and
\* the batch still accepting scans
StaleClassificationWitness ==
    /\ logs["b1"]["c1"] = <<"not_found">>
    /\ crate["c1"].present /\ crate["c1"].batch_id = "b1"
    /\ batch["b1"].status \in ScanStatuses

\* C35: for every batch, the reconciled count of the statistics and completeness
\* queries is at most the number of crates assigned to the batch: the missing
\* count is not negative and the percentage is at most 100.
ReconciledWithinAssigned ==
    \A b \in BatchIds :
        LET weighed == get_reconciliation_stats(b)
            scanned == get_batch_stats(b)
        IN /\ weighed.reconciled_crates <= weighed.total_crates
           /\ weighed.missing_crates >= 0
           /\ weighed.reconciled_crates * 100 <= weighed.total_crates * 100
           /\ scanned.reconciled_crates <= scanned.total_crates
           /\ scanned.reconciled_crates * 100 <= scanned.total_crates * 100
           /\ get_batch_reconciliation_status(b).reconciled_count <= weighed.total_crates

\* C36: for every batch, the report based on scans (get_batch_stats) says fully
\* reconciled exactly when the report based on weighings (get_reconciliation_stats)
\* says complete, and both give the same reconciled count.
CompletenessReportsAgree ==
    \A b \in BatchIds :
        /\ get_batch_stats(b).is_fully_reconciled
               = get_reconciliation_stats(b).is_reconciliation_complete
        /\ get_batch_stats(b).reconciled_crates
               = get_reconciliation_stats(b).reconciled_crates

\* C37: a caller whose close_batch returned True and who then asks for the status
\* of the batch is told closed = true, with the time and the user of its close,
\* whatever reconcile_crate and update_total_crates calls of the other callers
\* ran alongside.
ClosedStaysClosed ==
    \A k \in Callers :
        (/\ calls[k].op = "get_reconciliation_status"
         /\ calls[k].pc = "done"
         /\ calls[k].prev.op = "close_batch"
         /\ calls[k].prev.ret = "True") =>
            /\ calls[k].status.closed = TRUE
            /\ calls[k].status.closed_at = Timestamp
            /\ calls[k].status.closed_by = k

\* C38: while a batch is closed every scan and every weighing against it is
\* refused and would store nothing, and no request changes the status of the
\* batch, its scan records or its weighing records.
ClosedBatchIsFrozen ==
    [][\A b \in BatchIds : batch[b].status = "closed" =>
            /\ \A c \in Codes :
                    /\ scan_crate(b, c).resp.code >= 400
                    /\ scan_crate(b, c).logs = logs
                    /\ scan_crate(b, c).batch = batch
            /\ \A c \in Codes, w \in ObsWeights \cup {NoWeight, 0} :
                    /\ reconcile_crate(b, c, w).resp.code >= 400
                    /\ reconcile_crate(b, c, w).recs = recs
                    /\ reconcile_crate(b, c, w).crate = crate
            /\ batch'[b].status = "closed"
            /\ logs'[b] = logs[b]
            /\ recs'[b] = recs[b]]_vars

\* a closed batch that has a scan record and a weighing record
FrozenWitness ==
    \E b \in BatchIds :
        /\ batch[b].status = "closed"
        /\ \E c \in Codes : Len(logs[b][c]) > 0
        /\ \E c \in Codes : Len(recs[b][c]) > 0

====
